---- MODULE Spec2Model ----
(***************************************************************************)
(* Model of docker-runner's "build" subcommand: buildCmd.Run -> NewClient  *)
(* -> Client.Build -> buildRequestReaderWithAllFiles (readFile, tar        *)
(* writer) -> ImageBuild -> bufio.Scanner log drain.                       *)
(*                                                                         *)
(* The file system under the source path and the failures of the steps are *)
(* the environment: the directory is fixed in Init, each step's outcome is *)
(* chosen when the step runs.  The program is single-threaded, pc is the   *)
(* position of its one thread of control.                                  *)
(***************************************************************************)
EXTENDS Integers, Sequences, FiniteSets, TLC

\* Bounds of the model.
MaxFiles == 2
MaxContent == 1
MaxLines == 2

\* File names, in byte order (os.ReadDir sorts its result by file name).
NamePool == <<"Dockerfile", "a.txt", "b.txt", "sub">>
Names == {NamePool[k] : k \in 1..MaxFiles}
NameIndex(n) == CHOOSE k \in 1..Len(NamePool) : NamePool[k] = n

\* fs.FileMode values of regular files: the permission bits (0644, 0755), with
\* ModeSetuid (1<<23) when the file is setuid.  A directory's ModeDir bit
\* (1<<31) is its isDir field; 493 (0755) is the rest of its mode.
ModeSetuid == 2^23
FileModes == {420, ModeSetuid + 493}

Contents == {[k \in 1..n |-> k] : n \in 0..MaxContent}

RegularFiles == [isDir : {FALSE}, mode : FileModes, content : Contents]
Directories == [isDir : {TRUE}, mode : {493}, content : {<<>>}]

\* The lines the external build API may produce.
LogLines == {"Step 1/1", "Successfully built"}

\* Sentinel errors.
ClientBuildErr == "failed to create Docker client"
ImageBuildErr == "failed to build image"
BuildDockerAPIErr == "docker api build error"
DockerfileNotFoundErr == "dockerfile not found"
ContextDirReadErr == "failed to read folder content to build request"
ContextFilesReadErr == "failed to add file to build request"

Sentinels == {ClientBuildErr, ImageBuildErr, BuildDockerAPIErr,
              DockerfileNotFoundErr, ContextDirReadErr, ContextFilesReadErr}

\* An error is the chain of its wrapped frames, outermost first; nil is <<>>.
Frame(kind, phase, name) == [kind |-> kind, phase |-> phase, name |-> name]
Cause(what) == <<Frame(what, "", "")>>
\* fmt.Errorf("%w ...: %w", sentinel, ..., err)
Errorf(kind, phase, name, err) == <<Frame(kind, phase, name)>> \o err
\* errors.Is(err, kind)
Is(err, kind) == \E k \in 1..Len(err) : err[k].kind = kind

VARIABLES
    srcKind,         \* what the source path names: "dir", "missing", "unlistable"
    files,           \* the directory: name -> [isDir, mode, content]
    pc,              \* position of the thread of control
    dir,             \* result of os.ReadDir
    idx,             \* position of the range loop in dir
    buf,             \* bytes.Buffer under the tar writer, as a sequence of blocks
    tw,              \* tar.Writer state
    reader,          \* value returned by buildRequestReaderWithAllFiles
    archErr,         \* error returned by buildRequestReaderWithAllFiles
    archReturned,    \* buildRequestReaderWithAllFiles has returned
    buildErr,        \* error returned by Build
    buildReturned,   \* Build has returned
    panicking,       \* a panic is unwinding the stack
    panicVal,        \* the value of that panic
    failed,          \* the step that failed: [step, name]
    readDirCalls,    \* calls of os.ReadDir
    opened,          \* names passed to os.Open, in order
    imageBuildCalls, \* calls of ImageBuild
    submitted,       \* the bytes ImageBuild was given
    body,            \* response.Body: "none", "open", "closed"
    bodyCloses,      \* calls of response.Body.Close
    produced,        \* log lines the scanner has read
    eof,             \* the scanner reached the end of the stream
    token,           \* scanner.Text() of the line not yet printed
    out,             \* lines printed on standard output
    phase,           \* notStarted, submitted, streaming, completed, failed
    exitStatus       \* -1 while running, else the process's exit status

vars == <<srcKind, files, pc, dir, idx, buf, tw, reader, archErr, archReturned,
          buildErr, buildReturned, panicking, panicVal, failed, readDirCalls,
          opened, imageBuildCalls, submitted, body, bodyCloses, produced, eof,
          token, out, phase, exitStatus>>

fsVars == <<srcKind, files>>
archVars == <<dir, idx, buf, tw, reader, archErr, archReturned, readDirCalls, opened>>
logVars == <<imageBuildCalls, submitted, body, bodyCloses, produced, eof, token, out>>

NoReader == [ok |-> FALSE, bytes |-> <<>>]
NoFailure == [step |-> "none", name |-> ""]

Init ==
    /\ srcKind \in {"dir", "missing", "unlistable"}
    /\ \E present \in SUBSET Names :
         /\ srcKind # "dir" => present = {}
         /\ files \in [present -> RegularFiles \cup Directories]
    /\ pc = "Run"
    /\ dir = <<>>
    /\ idx = 0
    /\ buf = <<>>
    /\ tw = [pad |-> 0, err |-> FALSE, closed |-> FALSE]
    /\ reader = NoReader
    /\ archErr = <<>>
    /\ archReturned = FALSE
    /\ buildErr = <<>>
    /\ buildReturned = FALSE
    /\ panicking = FALSE
    /\ panicVal = <<>>
    /\ failed = NoFailure
    /\ readDirCalls = 0
    /\ opened = <<>>
    /\ imageBuildCalls = 0
    /\ submitted = <<>>
    /\ body = "none"
    /\ bodyCloses = 0
    /\ produced = <<>>
    /\ eof = FALSE
    /\ token = ""
    /\ out = <<>>
    /\ phase = "notStarted"
    /\ exitStatus = -1

----------------------------------------------------------------------------
\* archive/tar, as far as the program uses it.

\* Bytes needed to pad an entry of the given size to the 512-byte block.
Padding(size) == (512 - (size % 512)) % 512

HeaderBlock(hdr) == [t |-> "hdr", name |-> hdr.name, size |-> hdr.size, mode |-> hdr.mode, bytes |-> <<>>]
DataBlock(b) == [t |-> "data", name |-> "", size |-> Len(b), mode |-> 0, bytes |-> b]
PadBlock(n) == [t |-> "pad", name |-> "", size |-> n, mode |-> 0, bytes |-> <<>>]
ZeroBlock == [t |-> "zero", name |-> "", size |-> 512, mode |-> 0, bytes |-> <<>>]

\* tw.Flush: writes the padding the current entry still needs.
TwFlush(w, b) ==
    IF w.pad > 0 THEN [tw |-> [w EXCEPT !.pad = 0], buf |-> Append(b, PadBlock(w.pad))]
    ELSE [tw |-> w, buf |-> b]

\* tw.WriteHeader(hdr): finishes the previous entry, then writes the header block.
TwWriteHeader(w, b, hdr) ==
    LET f == TwFlush(w, b)
    IN [tw |-> [f.tw EXCEPT !.pad = Padding(hdr.size)],
        buf |-> Append(f.buf, HeaderBlock(hdr))]

\* tw.Write(p): the content bytes of the current entry.
TwWrite(w, b, p) ==
    [tw |-> w, buf |-> IF Len(p) > 0 THEN Append(b, DataBlock(p)) ELSE b]

\* tw.Close: nothing once an error is recorded or the writer is closed;
\* otherwise flushes and writes the two zero blocks that end the archive.
TwClose(w, b) ==
    IF w.err \/ w.closed THEN [tw |-> w, buf |-> b]
    ELSE LET f == TwFlush(w, b)
         IN [tw |-> [f.tw EXCEPT !.closed = TRUE],
             buf |-> f.buf \o <<ZeroBlock, ZeroBlock>>]

\* A tar reader: the entries of a block sequence, each with the content that
\* follows its header.
RECURSIVE TarEntries(_)
TarEntries(bs) ==
    IF bs = <<>> THEN <<>>
    ELSE LET rest == TarEntries(SubSeq(bs, 1, Len(bs) - 1))
             last == bs[Len(bs)]
         IN IF last.t = "hdr"
            THEN Append(rest, [name |-> last.name, size |-> last.size,
                               mode |-> last.mode, content |-> <<>>])
            ELSE IF last.t = "data" /\ rest # <<>>
            THEN [rest EXCEPT ![Len(rest)].content = @ \o last.bytes]
            ELSE rest

\* The archive ends with the end-of-archive marker (two zero blocks).
Finalized(bs) ==
    /\ Len(bs) >= 2
    /\ bs[Len(bs)].t = "zero"
    /\ bs[Len(bs) - 1].t = "zero"

----------------------------------------------------------------------------
\* os.ReadDir: the directory's entries sorted by file name.
RECURSIVE SortedNames(_)
SortedNames(S) ==
    IF S = {} THEN <<>>
    ELSE LET n == CHOOSE x \in S : \A y \in S : NameIndex(x) <= NameIndex(y)
         IN <<n>> \o SortedNames(S \ {n})

DirEntry(n) == [name |-> n, isDir |-> files[n].isDir]
ReadDirListing == [k \in 1..Cardinality(DOMAIN files) |-> DirEntry(SortedNames(DOMAIN files)[k])]

\* Mutant of IsDir: no entry is taken for a directory.
IsDirNever(d) == FALSE

\* d.IsDir()
IsDir(d) == d.isDir

\* How readFile can end for an entry: a directory opens but cannot be read.
ReadFileOutcomes(d) == IF files[d.name].isDir THEN {"read"} ELSE {"ok", "open", "read"}

\* readFile's error: "(opening %s)" when os.Open fails, "(reading %s)" when io.ReadAll does.
ReadFileErr(outcome, fileName) ==
    IF outcome = "open"
    THEN Errorf(ContextFilesReadErr, "opening", fileName, Cause("os.Open"))
    ELSE Errorf(ContextFilesReadErr, "reading", fileName, Cause("io.ReadAll"))

\* The loop's error for an entry that could not be added, by failing phase.
AddFileErr(phasename, fileName, err) == Errorf(ContextFilesReadErr, phasename, fileName, err)

\* Mutant of TarHeader: the header is built without the mode.
TarHeaderNoMode(fileName, b, mode) == [name |-> fileName, size |-> Len(b), mode |-> 0]

\* &tar.Header{Name: d.Name(), Size: int64(len(b)), Mode: int64(i.Mode())}
TarHeader(fileName, b, mode) == [name |-> fileName, size |-> Len(b), mode |-> mode]

\* The entry the range loop is at.
AtEntry == pc = "Loop" /\ idx <= Len(dir)
Cur == dir[idx]

\* return nil, err out of the loop, with the deferred tw.Close still to run.
LoopReturnErr(step, err) ==
    /\ archErr' = err
    /\ failed' = [step |-> step, name |-> Cur.name]
    /\ pc' = "DeferTwClose"
    /\ UNCHANGED <<dir, idx, reader, archReturned, readDirCalls>>
    /\ UNCHANGED <<buildErr, buildReturned, panicking, panicVal, phase, exitStatus>>
    /\ UNCHANGED fsVars /\ UNCHANGED logVars

----------------------------------------------------------------------------
\* buildCmd.Run: docker.NewClient()

NewClientOk ==
    /\ pc = "Run"
    /\ pc' = "Build"
    /\ UNCHANGED <<buildErr, buildReturned, panicking, panicVal, failed, phase, exitStatus>>
    /\ UNCHANGED fsVars /\ UNCHANGED archVars /\ UNCHANGED logVars

\* NewClient fails: Run panics with the wrapped error.
NewClientFail ==
    /\ pc = "Run"
    /\ panicking' = TRUE
    /\ panicVal' = Errorf(ClientBuildErr, "", "", Cause("client.NewClientWithOpts"))
    /\ failed' = [step |-> "newclient", name |-> ""]
    /\ pc' = "Panic"
    /\ UNCHANGED <<buildErr, buildReturned, phase, exitStatus>>
    /\ UNCHANGED fsVars /\ UNCHANGED archVars /\ UNCHANGED logVars

----------------------------------------------------------------------------
\* buildRequestReaderWithAllFiles

\* filepath.Abs fails (the working directory cannot be determined): return nil, err
\* before the tar writer exists.
AbsFail ==
    /\ pc = "Build"
    /\ archErr' = Errorf(DockerfileNotFoundErr, "", "", Cause("filepath.Abs"))
    /\ archReturned' = TRUE
    /\ failed' = [step |-> "abs", name |-> ""]
    /\ pc' = "BuildCheck"
    /\ UNCHANGED <<dir, idx, buf, tw, reader, readDirCalls, opened>>
    /\ UNCHANGED <<buildErr, buildReturned, panicking, panicVal, phase, exitStatus>>
    /\ UNCHANGED fsVars /\ UNCHANGED logVars

\* filepath.Abs succeeds (it does not look at the file system); the buffer and
\* the tar writer are created and tw.Close is deferred.
AbsOk ==
    /\ pc = "Build"
    /\ buf' = <<>>
    /\ tw' = [pad |-> 0, err |-> FALSE, closed |-> FALSE]
    /\ pc' = "ReadDir"
    /\ UNCHANGED <<dir, idx, reader, archErr, archReturned, readDirCalls, opened>>
    /\ UNCHANGED <<buildErr, buildReturned, panicking, panicVal, failed, phase, exitStatus>>
    /\ UNCHANGED fsVars /\ UNCHANGED logVars

ReadDirFail ==
    /\ pc = "ReadDir"
    /\ srcKind # "dir"
    /\ readDirCalls' = readDirCalls + 1
    /\ archErr' = Errorf(ContextDirReadErr, "", "", Cause("os.ReadDir"))
    /\ failed' = [step |-> "readdir", name |-> ""]
    /\ pc' = "DeferTwClose"
    /\ UNCHANGED <<dir, idx, buf, tw, reader, archReturned, opened>>
    /\ UNCHANGED <<buildErr, buildReturned, panicking, panicVal, phase, exitStatus>>
    /\ UNCHANGED fsVars /\ UNCHANGED logVars

ReadDirOk ==
    /\ pc = "ReadDir"
    /\ srcKind = "dir"
    /\ readDirCalls' = readDirCalls + 1
    /\ dir' = ReadDirListing
    /\ idx' = 1
    /\ pc' = "Loop"
    /\ UNCHANGED <<buf, tw, reader, archErr, archReturned, opened>>
    /\ UNCHANGED <<buildErr, buildReturned, panicking, panicVal, failed, phase, exitStatus>>
    /\ UNCHANGED fsVars /\ UNCHANGED logVars

\* if !d.IsDir() is false: the entry is skipped.
LoopSkipDir ==
    /\ AtEntry
    /\ IsDir(Cur)
    /\ idx' = idx + 1
    /\ UNCHANGED <<pc, dir, buf, tw, reader, archErr, archReturned, readDirCalls, opened>>
    /\ UNCHANGED <<buildErr, buildReturned, panicking, panicVal, failed, phase, exitStatus>>
    /\ UNCHANGED fsVars /\ UNCHANGED logVars

\* Mutant of LoopReadFileFail: the unreadable file is skipped and the loop goes on.
LoopReadFileFailSkips ==
    /\ AtEntry
    /\ ~IsDir(Cur)
    /\ \E o \in ReadFileOutcomes(Cur) \ {"ok"} :
         /\ opened' = Append(opened, Cur.name)
         /\ failed' = [step |-> o, name |-> Cur.name]
    /\ idx' = idx + 1
    /\ UNCHANGED <<pc, dir, buf, tw, reader, archErr, archReturned, readDirCalls>>
    /\ UNCHANGED <<buildErr, buildReturned, panicking, panicVal, phase, exitStatus>>
    /\ UNCHANGED fsVars /\ UNCHANGED logVars

\* readFile fails (os.Open or io.ReadAll): return nil, err.
LoopReadFileFail ==
    /\ AtEntry
    /\ ~IsDir(Cur)
    /\ \E o \in ReadFileOutcomes(Cur) \ {"ok"} :
         /\ opened' = Append(opened, Cur.name)
         /\ LoopReturnErr(o, AddFileErr("opening", Cur.name, ReadFileErr(o, Cur.name)))
    /\ UNCHANGED <<buf, tw>>

\* d.Info() fails: its error is discarded, i is nil and i.Mode() panics.
LoopInfoFail ==
    /\ AtEntry
    /\ ~IsDir(Cur)
    /\ "ok" \in ReadFileOutcomes(Cur)
    /\ opened' = Append(opened, Cur.name)
    /\ panicking' = TRUE
    /\ panicVal' = Cause("nil pointer dereference")
    /\ failed' = [step |-> "info", name |-> Cur.name]
    /\ pc' = "DeferTwClose"
    /\ UNCHANGED <<dir, idx, buf, tw, reader, archErr, archReturned, readDirCalls>>
    /\ UNCHANGED <<buildErr, buildReturned, phase, exitStatus>>
    /\ UNCHANGED fsVars /\ UNCHANGED logVars

\* tw.WriteHeader fails: return nil, err.
LoopHeaderFail ==
    /\ AtEntry
    /\ ~IsDir(Cur)
    /\ "ok" \in ReadFileOutcomes(Cur)
    /\ opened' = Append(opened, Cur.name)
    /\ tw' = [tw EXCEPT !.err = TRUE]
    /\ buf' = buf
    /\ LoopReturnErr("header", AddFileErr("writing header", Cur.name, Cause("tw.WriteHeader")))

\* tw.Write fails after the header was written: return nil, err.
LoopContentFail ==
    /\ AtEntry
    /\ ~IsDir(Cur)
    /\ "ok" \in ReadFileOutcomes(Cur)
    /\ opened' = Append(opened, Cur.name)
    /\ LET f == files[Cur.name]
           h == TwWriteHeader(tw, buf, TarHeader(Cur.name, f.content, f.mode))
       IN /\ tw' = [h.tw EXCEPT !.err = TRUE]
          /\ buf' = h.buf
    /\ LoopReturnErr("content", AddFileErr("writing content", Cur.name, Cause("tw.Write")))

\* The entry is read and written: header, then content.
LoopArchive ==
    /\ AtEntry
    /\ ~IsDir(Cur)
    /\ "ok" \in ReadFileOutcomes(Cur)
    /\ opened' = Append(opened, Cur.name)
    /\ LET f == files[Cur.name]
           h == TwWriteHeader(tw, buf, TarHeader(Cur.name, f.content, f.mode))
           w == TwWrite(h.tw, h.buf, f.content)
       IN /\ tw' = w.tw
          /\ buf' = w.buf
    /\ idx' = idx + 1
    /\ UNCHANGED <<pc, dir, reader, archErr, archReturned, readDirCalls>>
    /\ UNCHANGED <<buildErr, buildReturned, panicking, panicVal, failed, phase, exitStatus>>
    /\ UNCHANGED fsVars /\ UNCHANGED logVars

\* tw.Flush fails after the loop: return nil, err.
FlushFail ==
    /\ pc = "Loop"
    /\ idx > Len(dir)
    /\ tw' = [tw EXCEPT !.err = TRUE]
    /\ archErr' = Errorf(ContextFilesReadErr, "flushing header", "", Cause("tw.Flush"))
    /\ failed' = [step |-> "flush", name |-> ""]
    /\ pc' = "DeferTwClose"
    /\ UNCHANGED <<dir, idx, buf, reader, archReturned, readDirCalls, opened>>
    /\ UNCHANGED <<buildErr, buildReturned, panicking, panicVal, phase, exitStatus>>
    /\ UNCHANGED fsVars /\ UNCHANGED logVars

\* tw.Flush succeeds; return bytes.NewReader(buf.Bytes()), nil evaluates its
\* result: the reader holds the bytes the buffer has at this moment.
FlushAndReturn ==
    /\ pc = "Loop"
    /\ idx > Len(dir)
    /\ LET f == TwFlush(tw, buf)
       IN /\ tw' = f.tw
          /\ buf' = f.buf
          /\ reader' = [ok |-> TRUE, bytes |-> f.buf]
    /\ pc' = "DeferTwClose"
    /\ UNCHANGED <<dir, idx, archErr, archReturned, readDirCalls, opened>>
    /\ UNCHANGED <<buildErr, buildReturned, panicking, panicVal, failed, phase, exitStatus>>
    /\ UNCHANGED fsVars /\ UNCHANGED logVars

\* The deferred tw.Close runs after the result was evaluated, or while the
\* panic unwinds; what it writes goes to the buffer, not to the reader.
DeferTwClose ==
    /\ pc = "DeferTwClose"
    /\ LET c == TwClose(tw, buf)
       IN /\ tw' = c.tw
          /\ buf' = c.buf
    /\ IF panicking
       THEN /\ pc' = "Panic"
            /\ phase' = "failed"
            /\ UNCHANGED archReturned
       ELSE /\ pc' = "BuildCheck"
            /\ archReturned' = TRUE
            /\ UNCHANGED phase
    /\ UNCHANGED <<dir, idx, reader, archErr, readDirCalls, opened>>
    /\ UNCHANGED <<buildErr, buildReturned, panicking, panicVal, failed, exitStatus>>
    /\ UNCHANGED fsVars /\ UNCHANGED logVars

----------------------------------------------------------------------------
\* Client.Build

\* Mutant of BuildArchFailed: the archive error is not checked and ImageBuild is called.
BuildArchFailedIgnored ==
    /\ pc = "BuildCheck"
    /\ archErr # <<>>
    /\ imageBuildCalls' = imageBuildCalls + 1
    /\ submitted' = reader.bytes
    /\ phase' = "submitted"
    /\ pc' = "ImageBuild"
    /\ UNCHANGED <<body, bodyCloses, produced, eof, token, out>>
    /\ UNCHANGED <<buildErr, buildReturned, panicking, panicVal, failed, exitStatus>>
    /\ UNCHANGED fsVars /\ UNCHANGED archVars

\* if err != nil after buildRequestReaderWithAllFiles: wrap and return.
BuildArchFailed ==
    /\ pc = "BuildCheck"
    /\ archErr # <<>>
    /\ buildErr' = Errorf(ImageBuildErr, "", "", archErr)
    /\ buildReturned' = TRUE
    /\ phase' = "failed"
    /\ pc' = "RunCheck"
    /\ UNCHANGED <<panicking, panicVal, failed, exitStatus>>
    /\ UNCHANGED fsVars /\ UNCHANGED archVars /\ UNCHANGED logVars

\* c.d.ImageBuild(ctx, dockerFileReader, options) is called with the reader.
ImageBuildCall ==
    /\ pc = "BuildCheck"
    /\ archErr = <<>>
    /\ imageBuildCalls' = imageBuildCalls + 1
    /\ submitted' = reader.bytes
    /\ phase' = "submitted"
    /\ pc' = "ImageBuild"
    /\ UNCHANGED <<body, bodyCloses, produced, eof, token, out>>
    /\ UNCHANGED <<buildErr, buildReturned, panicking, panicVal, failed, exitStatus>>
    /\ UNCHANGED fsVars /\ UNCHANGED archVars

\* ImageBuild returns an error: wrap and return, no response to close.
ImageBuildFail ==
    /\ pc = "ImageBuild"
    /\ buildErr' = Errorf(BuildDockerAPIErr, "", "", Cause("ImageBuild"))
    /\ buildReturned' = TRUE
    /\ failed' = [step |-> "imagebuild", name |-> ""]
    /\ phase' = "failed"
    /\ pc' = "RunCheck"
    /\ UNCHANGED <<panicking, panicVal, exitStatus>>
    /\ UNCHANGED fsVars /\ UNCHANGED archVars /\ UNCHANGED logVars

\* ImageBuild returns a response; closing its body is deferred.
ImageBuildOk ==
    /\ pc = "ImageBuild"
    /\ body' = "open"
    /\ phase' = "streaming"
    /\ pc' = "Scan"
    /\ UNCHANGED <<imageBuildCalls, submitted, bodyCloses, produced, eof, token, out>>
    /\ UNCHANGED <<buildErr, buildReturned, panicking, panicVal, failed, exitStatus>>
    /\ UNCHANGED fsVars /\ UNCHANGED archVars

\* scanner.Scan() returns true: the next line of the stream is the token.
ScanLine ==
    /\ pc = "Scan"
    /\ Len(produced) < MaxLines
    /\ \E l \in LogLines :
         /\ produced' = Append(produced, l)
         /\ token' = l
    /\ pc' = "Println"
    /\ UNCHANGED <<imageBuildCalls, submitted, body, bodyCloses, eof, out>>
    /\ UNCHANGED <<buildErr, buildReturned, panicking, panicVal, failed, phase, exitStatus>>
    /\ UNCHANGED fsVars /\ UNCHANGED archVars

\* fmt.Println(scanner.Text())
Println ==
    /\ pc = "Println"
    /\ out' = Append(out, token)
    /\ token' = ""
    /\ pc' = "Scan"
    /\ UNCHANGED <<imageBuildCalls, submitted, body, bodyCloses, produced, eof>>
    /\ UNCHANGED <<buildErr, buildReturned, panicking, panicVal, failed, phase, exitStatus>>
    /\ UNCHANGED fsVars /\ UNCHANGED archVars

\* Mutant of ScanErrResult: the read error is swallowed.
ScanErrSwallowed(err) == <<>>

\* What Build returns when scanner.Err() is not nil: the error itself.
ScanErrResult(err) == err

\* scanner.Scan() returns false at the end of the stream: scanner.Err() is nil.
ScanEOF ==
    /\ pc = "Scan"
    /\ eof' = TRUE
    /\ buildErr' = <<>>
    /\ pc' = "DeferBodyClose"
    /\ UNCHANGED <<imageBuildCalls, submitted, body, bodyCloses, produced, token, out>>
    /\ UNCHANGED <<buildReturned, panicking, panicVal, failed, phase, exitStatus>>
    /\ UNCHANGED fsVars /\ UNCHANGED archVars

\* scanner.Scan() returns false on a read error: return scanner.Err().
ScanErr ==
    /\ pc = "Scan"
    /\ buildErr' = ScanErrResult(Cause("response.Body.Read"))
    /\ failed' = [step |-> "logread", name |-> ""]
    /\ pc' = "DeferBodyClose"
    /\ UNCHANGED logVars
    /\ UNCHANGED <<buildReturned, panicking, panicVal, phase, exitStatus>>
    /\ UNCHANGED fsVars /\ UNCHANGED archVars

\* Mutant of DeferBodyClose: the body is closed on the success path only.
BodyCloseOnSuccessOnly ==
    /\ pc = "DeferBodyClose"
    /\ body' = IF buildErr = <<>> THEN "closed" ELSE body
    /\ bodyCloses' = IF buildErr = <<>> THEN bodyCloses + 1 ELSE bodyCloses
    /\ buildReturned' = TRUE
    /\ phase' = IF buildErr = <<>> THEN "completed" ELSE "failed"
    /\ pc' = "RunCheck"
    /\ UNCHANGED <<imageBuildCalls, submitted, produced, eof, token, out>>
    /\ UNCHANGED <<buildErr, panicking, panicVal, failed, exitStatus>>
    /\ UNCHANGED fsVars /\ UNCHANGED archVars

\* The deferred response.Body.Close() runs as Build returns.
DeferBodyClose ==
    /\ pc = "DeferBodyClose"
    /\ body' = "closed"
    /\ bodyCloses' = bodyCloses + 1
    /\ buildReturned' = TRUE
    /\ phase' = IF buildErr = <<>> THEN "completed" ELSE "failed"
    /\ pc' = "RunCheck"
    /\ UNCHANGED <<imageBuildCalls, submitted, produced, eof, token, out>>
    /\ UNCHANGED <<buildErr, panicking, panicVal, failed, exitStatus>>
    /\ UNCHANGED fsVars /\ UNCHANGED archVars

----------------------------------------------------------------------------
\* buildCmd.Run after c.Build, and the end of the process.

\* Mutant of RunBuildFailed: Build's error is dropped and Run returns.
RunBuildFailedIgnored ==
    /\ pc = "RunCheck"
    /\ buildErr # <<>>
    /\ pc' = "Returned"
    /\ UNCHANGED <<buildErr, buildReturned, panicking, panicVal, failed, phase, exitStatus>>
    /\ UNCHANGED fsVars /\ UNCHANGED archVars /\ UNCHANGED logVars

\* if err != nil { panic(err) }
RunBuildFailed ==
    /\ pc = "RunCheck"
    /\ buildErr # <<>>
    /\ panicking' = TRUE
    /\ panicVal' = buildErr
    /\ pc' = "Panic"
    /\ UNCHANGED <<buildErr, buildReturned, failed, phase, exitStatus>>
    /\ UNCHANGED fsVars /\ UNCHANGED archVars /\ UNCHANGED logVars

\* Build returned nil: Run returns.
RunReturn ==
    /\ pc = "RunCheck"
    /\ buildErr = <<>>
    /\ pc' = "Returned"
    /\ UNCHANGED <<buildErr, buildReturned, panicking, panicVal, failed, phase, exitStatus>>
    /\ UNCHANGED fsVars /\ UNCHANGED archVars /\ UNCHANGED logVars

\* An unrecovered panic: the runtime prints the panic value and exits with status 2.
PanicExit ==
    /\ pc = "Panic"
    /\ exitStatus' = 2
    /\ pc' = "Exited"
    /\ UNCHANGED <<buildErr, buildReturned, panicking, panicVal, failed, phase>>
    /\ UNCHANGED fsVars /\ UNCHANGED archVars /\ UNCHANGED logVars

\* Run returned without a panic: the command ends with status 0.
ProcessExit ==
    /\ pc = "Returned"
    /\ exitStatus' = 0
    /\ pc' = "Exited"
    /\ UNCHANGED <<buildErr, buildReturned, panicking, panicVal, failed, phase>>
    /\ UNCHANGED fsVars /\ UNCHANGED archVars /\ UNCHANGED logVars

Next ==
    \/ NewClientOk
    \/ NewClientFail
    \/ AbsFail
    \/ AbsOk
    \/ ReadDirFail
    \/ ReadDirOk
    \/ LoopSkipDir
    \/ LoopReadFileFail
    \/ LoopInfoFail
    \/ LoopHeaderFail
    \/ LoopContentFail
    \/ LoopArchive
    \/ FlushFail
    \/ FlushAndReturn
    \/ DeferTwClose
    \/ BuildArchFailed
    \/ ImageBuildCall
    \/ ImageBuildFail
    \/ ImageBuildOk
    \/ ScanLine
    \/ Println
    \/ ScanEOF
    \/ ScanErr
    \/ DeferBodyClose
    \/ RunBuildFailed
    \/ RunReturn
    \/ PanicExit
    \/ ProcessExit

Spec == Init /\ [][Next]_vars

----------------------------------------------------------------------------
\* Properties.

AllRegular == \A n \in DOMAIN files : ~files[n].isDir
SomeDirectory == \E n \in DOMAIN files : files[n].isDir
EntriesNamed(es, n) == {k \in 1..Len(es) : es[k].name = n}
IsPrefix(s, t) == Len(s) <= Len(t) /\ SubSeq(t, 1, Len(s)) = s
BuildFailed == buildReturned /\ buildErr # <<>>
BuildSucceeded == buildReturned /\ buildErr = <<>>

C2_ReturnedArchiveFinalized ==
    /\ reader.ok => Finalized(reader.bytes)
    /\ imageBuildCalls > 0 => Finalized(submitted)

\* C3: for a source path that does not exist, os.ReadDir is never called and
\* buildRequestReaderWithAllFiles returns DockerfileNotFoundErr.
C3_MissingPathNotFound ==
    srcKind = "missing" =>
        /\ readDirCalls = 0
        /\ archReturned => Is(archErr, DockerfileNotFoundErr)

\* C4: no subdirectory is an entry of the archive (in the buffer, in the
\* returned reader, in what ImageBuild is given) and nothing but first-level
\* non-directory entries is ever opened.
C4_NoSubdirectory ==
    /\ \A k \in 1..Len(opened) :
         opened[k] \in DOMAIN files /\ ~files[opened[k]].isDir
    /\ \A bs \in {buf, reader.bytes, submitted} :
         \A k \in 1..Len(TarEntries(bs)) :
            /\ TarEntries(bs)[k].name \in DOMAIN files
            /\ ~files[TarEntries(bs)[k].name].isDir

C4_Witness ==
    /\ reader.ok
    /\ archReturned
    /\ SomeDirectory
    /\ Len(TarEntries(reader.bytes)) >= 1
    /\ Len(dir) >= 2
    /\ dir[1].isDir

\* C5: when a listed file cannot be opened or read, the loop stops at that
\* file, the error is ContextFilesReadErr carrying the file's name, no reader
\* is returned, and the archive written so far is never submitted.
C5_UnreadableFile ==
    failed.step \in {"open", "read"} =>
        /\ ~reader.ok
        /\ Is(archErr, ContextFilesReadErr)
        /\ archErr[1].kind = ContextFilesReadErr
        /\ archErr[1].name = failed.name
        /\ opened[Len(opened)] = failed.name
        /\ dir[idx].name = failed.name
        /\ imageBuildCalls = 0
        /\ submitted = <<>>
        /\ phase \in {"notStarted", "failed"}
        /\ exitStatus # 0

C5_Witness ==
    /\ failed.step \in {"open", "read"}
    /\ buildReturned
    /\ Len(TarEntries(buf)) >= 1

\* The kind of the taxonomy for each failing step of Build.
KindOfStep(step) ==
    CASE step = "abs" -> DockerfileNotFoundErr
      [] step = "readdir" -> ContextDirReadErr
      [] step \in {"open", "read", "info", "header", "content", "flush"} -> ContextFilesReadErr
      [] step = "imagebuild" -> BuildDockerAPIErr
      [] OTHER -> "log stream read"

\* C6: every failing step of Build makes Build return an error wrapped with
\* the step's kind: no failure is ignored, and none leaves Build otherwise.
C6_EveryFailureWrapped ==
    (failed.step \notin {"none", "newclient"} /\ pc \in {"RunCheck", "Panic", "Exited"}) =>
        /\ buildReturned
        /\ Is(buildErr, KindOfStep(failed.step))

\* C7: a log stream that was obtained is closed, exactly once, by the time
\* Build returns, on success and on a read error alike; a stream that was
\* not obtained is never closed.
C7_LogStreamClosed ==
    /\ (buildReturned \/ pc \in {"RunCheck", "Returned", "Panic", "Exited"}) => body # "open"
    /\ bodyCloses = (IF body = "closed" THEN 1 ELSE 0)
    /\ failed.step = "imagebuild" => body = "none"
    /\ imageBuildCalls = 0 => body = "none"

C7_Witness ==
    /\ buildReturned
    /\ failed.step = "logread"
    /\ body = "closed"
    /\ bodyCloses = 1

\* C8: the printed lines are a prefix of the lines read from the stream, in
\* order; Build returns nil only after the end of the stream with every line
\* printed; after a read error Build returns an error and the lines printed
\* before it are on the output.
C8_LogRelay ==
    /\ IsPrefix(out, produced)
    /\ BuildSucceeded => eof /\ out = produced
    /\ (buildReturned /\ failed.step = "logread") => buildErr # <<>> /\ ~eof /\ out = produced
    /\ pc \in {"Scan", "DeferBodyClose"} => out = produced

C8_Witness ==
    /\ buildReturned
    /\ failed.step = "logread"
    /\ Len(out) >= 1
    /\ buildErr # <<>>

\* C9: the phase only moves forward; ImageBuild is called at most once and
\* only with the reader of an archive built without error; the log is read
\* only after ImageBuild succeeded; after the first failure, and after the
\* end, no step of the work is taken again.
WorkDone == <<readDirCalls, opened, imageBuildCalls, submitted, produced, out, failed>>

C9_State ==
    /\ imageBuildCalls <= 1
    /\ imageBuildCalls = 1 => archReturned /\ archErr = <<>> /\ reader.ok
    /\ phase \in {"submitted", "streaming", "completed"} => imageBuildCalls = 1
    /\ (produced # <<>> \/ eof) => body # "none" /\ imageBuildCalls = 1
    /\ phase = "streaming" => body = "open"
    /\ phase = "completed" => eof /\ failed.step = "none"

C9_Step ==
    /\ phase' # phase =>
          \/ phase = "notStarted" /\ phase' \in {"submitted", "failed"}
          \/ phase = "submitted" /\ phase' \in {"streaming", "failed"}
          \/ phase = "streaming" /\ phase' \in {"completed", "failed"}
    /\ (phase \in {"completed", "failed"} \/ failed.step # "none") => WorkDone' = WorkDone
    /\ C9_State'

C9_ForwardOnly == [][C9_Step]_vars

C9_Witness ==
    /\ phase = "completed"
    /\ Len(out) >= 2

\* C10: the process ends with a non-zero status, the error being the panic
\* value, whenever NewClient or Build failed, and with status zero only when
\* Build returned nil, the log read to its end.
C10_ExitStatus ==
    /\ pc # "Exited" <=> exitStatus = -1
    /\ pc = "Exited" =>
         /\ exitStatus = 0 <=> BuildSucceeded
         /\ exitStatus = 0 => eof /\ out = produced /\ failed.step = "none"
         /\ failed.step # "none" => exitStatus # 0 /\ panicVal # <<>>
         /\ BuildFailed => panicVal = buildErr
         /\ failed.step = "newclient" => Is(panicVal, ClientBuildErr)

C10_Witness ==
    /\ pc = "Exited"
    /\ exitStatus = 2
    /\ BuildFailed

====
